---- MODULE Spec2Model ----
(***************************************************************************)
(* Model of prcapi: the HTTP transport (src/src/prcapi/http.py) with its   *)
(* session lifecycle, response decoding, error classification and the      *)
(* one-retry-on-429 policy, and the exceptions it raises                   *)
(* (src/src/prcapi/exceptions.py).                                         *)
(*                                                                         *)
(* Conventions.                                                            *)
(*  - Python None where a string is expected is the string NoneStr; the    *)
(*    value None as a decoded payload is PyNone.                           *)
(*  - A decoded JSON value is a record [kind, keys, message, retry_after,  *)
(*    bucket]; a dict has the keys listed in `keys`, the fields of absent  *)
(*    keys hold fixed fillers so that equal dicts are equal records.       *)
(*  - Durations are whole seconds; float(x) of a JSON number keeps its     *)
(*    value, so retry_after is an integer here.                            *)
(*  - Error responses carry JSON objects {message, retry_after?, bucket?}  *)
(*    with a numeric retry_after, or no/plain-text bodies (the wire        *)
(*    protocol); every attempt that is sent gets an HTTP response.         *)
(***************************************************************************)
EXTENDS Integers, Sequences, FiniteSets, TLC

VARIABLES http, sessions, calls, issued, last,
          client, runner, closing, built, mapio

\* The transport and the calls on it.
tvars == <<http, sessions, calls, issued, last>>

\* The Client that owns the transport, its run() call, the close() calls in
\* progress, the credentials each transport was constructed with, and the
\* response mapper's input and result.
cvars == <<client, runner, closing, built, mapio>>

vars == <<http, sessions, calls, issued, last, client, runner, closing, built, mapio>>

\* Number of logical request() calls issued over one behaviour.
MaxCalls == 3

\* Tasks that issue request() calls, one after another.
Tasks == {"t1"}

NoneStr == "<None>"

(***************************************************************************)
(* Decoded payloads                                                        *)
(***************************************************************************)
PyNone == [kind |-> "none", keys |-> {}, message |-> "", retry_after |-> 0, bucket |-> ""]

Dict(keys, message, retry_after, bucket) ==
    [kind |-> "dict", keys |-> keys,
     message |-> IF "message" \in keys THEN message ELSE "",
     retry_after |-> IF "retry_after" \in keys THEN retry_after ELSE 0,
     bucket |-> IF "bucket" \in keys THEN bucket ELSE ""]

EmptyDict == Dict({}, "", 0, "")

PyList == [kind |-> "list", keys |-> {}, message |-> "", retry_after |-> 0, bucket |-> ""]

\* Python truthiness of a decoded payload: None and {} are falsy.
Truthy(d) == \/ d.kind = "list"
             \/ d.kind = "dict" /\ d.keys # {}

\* `data or {}`
OrEmpty(d) == IF Truthy(d) THEN d ELSE EmptyDict

\* dict.get(key, default)
Get(d, key, default) == IF key \in d.keys THEN d[key] ELSE default

(***************************************************************************)
(* The wire: what the server sends                                         *)
(***************************************************************************)
J_empty == EmptyDict
J_msg   == Dict({"message"}, "denied", 0, "")
J_ra0   == Dict({"retry_after"}, "", 0, "")
J_ra2   == Dict({"retry_after", "bucket"}, "", 2, "b1")
J_full  == Dict({"message", "retry_after", "bucket"}, "slow down", 1, "b2")
J_list  == PyList

\* The server's serialisation of a JSON value.
json_dumps(v) ==
    CASE v = J_empty -> "{}"
      [] v = J_msg   -> "{\"message\":\"denied\"}"
      [] v = J_ra0   -> "{\"retry_after\":0}"
      [] v = J_ra2   -> "{\"retry_after\":2,\"bucket\":\"b1\"}"
      [] v = J_full  -> "{\"message\":\"slow down\",\"retry_after\":1,\"bucket\":\"b2\"}"
      [] v = J_list  -> "[1]"

ValueError == [kind |-> "ValueError", keys |-> {}, message |-> "", retry_after |-> 0, bucket |-> ""]

\* resp.json(): an empty body decodes to None, a malformed one raises.
resp_json(text) ==
    CASE text = "" -> PyNone
      [] text = "{}" -> Dict({}, "", 0, "")
      [] text = "{\"message\":\"denied\"}" -> Dict({"message"}, "denied", 0, "")
      [] text = "{\"retry_after\":0}" -> Dict({"retry_after"}, "", 0, "")
      [] text = "{\"retry_after\":2,\"bucket\":\"b1\"}" -> Dict({"retry_after", "bucket"}, "", 2, "b1")
      [] text = "{\"message\":\"slow down\",\"retry_after\":1,\"bucket\":\"b2\"}"
              -> Dict({"message", "retry_after", "bucket"}, "slow down", 1, "b2")
      [] text = "[1]" -> PyList
      [] OTHER -> ValueError

\* A response as the client sees it; `body` is the JSON value the server
\* serialised into `text` (PyNone when the body is not JSON or is absent).
Response(status, reason, content_type, text, hdr_bucket, body) ==
    [status |-> status, reason |-> reason, content_type |-> content_type,
     content_length |-> Len(text), text |-> text, hdr_bucket |-> hdr_bucket,
     body |-> body]

NoBodyResp(status, reason, hdr) ==
    Response(status, reason, "application/octet-stream", "", hdr, PyNone)
JsonResp(status, reason, hdr, v) ==
    Response(status, reason, "application/json", json_dumps(v), hdr, v)
TextResp(status, reason, hdr, text) ==
    Response(status, reason, "text/plain", text, hdr, PyNone)
\* Declares JSON but the body does not parse.
BadJsonResp(status, reason, hdr) ==
    Response(status, reason, "application/json", "{oops", hdr, PyNone)
\* A JSON text sent without the JSON content type.
MislabelledResp(status, reason, hdr, v) ==
    Response(status, reason, "text/plain", json_dumps(v), hdr, PyNone)

Responses200 ==
    {NoBodyResp(200, "OK", NoneStr), BadJsonResp(200, "OK", NoneStr),
     TextResp(200, "OK", NoneStr, "<html>"), MislabelledResp(200, "OK", NoneStr, J_msg)}
    \cup {JsonResp(200, "OK", NoneStr, v) : v \in {J_empty, J_msg, J_list}}

Responses403 ==
    {NoBodyResp(403, "Forbidden", NoneStr), TextResp(403, "Forbidden", NoneStr, "<html>")}
    \cup {JsonResp(403, "Forbidden", NoneStr, v) : v \in {J_empty, J_msg}}

Responses429 ==
    UNION {{NoBodyResp(429, "Too Many Requests", h),
            TextResp(429, "Too Many Requests", h, "<html>")}
           \cup {JsonResp(429, "Too Many Requests", h, v) : v \in {J_ra0, J_ra2, J_full}}
           : h \in {NoneStr, "hb"}}

ResponsesOther ==
    UNION {{NoBodyResp(500, r, NoneStr), TextResp(500, r, NoneStr, "<html>"),
            JsonResp(500, r, NoneStr, J_msg)} : r \in {"", "Internal Server Error"}}
    \cup {NoBodyResp(404, "Not Found", NoneStr), JsonResp(404, "Not Found", NoneStr, J_empty)}

Responses == Responses200 \cup Responses403 \cup Responses429 \cup ResponsesOther

(***************************************************************************)
(* exceptions.py: what a failed call carries                               *)
(***************************************************************************)
NoOutcome ==
    [kind |-> "none", value |-> PyNone, status |-> 0, message |-> "",
     response_data |-> PyNone, retry_after |-> 0, bucket |-> NoneStr]

\* `return data`
Return(data) == [NoOutcome EXCEPT !.kind = "return", !.value = data]

HTTPException(status, message, response_data) ==
    [NoOutcome EXCEPT !.kind = "HTTPException", !.status = status,
                      !.message = message,
                      !.response_data = OrEmpty(response_data)]

Forbidden(message) ==
    [HTTPException(403, message, PyNone) EXCEPT !.kind = "Forbidden"]

RateLimited(message, retry_after, bucket) ==
    [HTTPException(429, message,
                   Dict({"retry_after", "bucket"}, "", retry_after, bucket))
       EXCEPT !.kind = "RateLimited", !.retry_after = retry_after,
              !.bucket = bucket]

\* Raised by the session when a request is started on a closed session.
SessionClosedError == [NoOutcome EXCEPT !.kind = "RuntimeError", !.message = "Session is closed"]

(***************************************************************************)
(* HTTPClient.request: decoding and classification of one response         *)
(***************************************************************************)
DefaultRetryAfter == 5

\* f"HTTP {resp.status}"
HttpStatusText(status) ==
    CASE status = 200 -> "HTTP 200"
      [] status = 403 -> "HTTP 403"
      [] status = 404 -> "HTTP 404"
      [] status = 429 -> "HTTP 429"
      [] status = 500 -> "HTTP 500"

\* Variant: the text fallback is taken for any falsy payload (`not data`).
DecodeData_FalsyFallback(resp) ==
    LET j == IF resp.content_type = "application/json"
             THEN resp_json(resp.text) ELSE PyNone
        data == IF j = ValueError THEN PyNone ELSE j
    IN IF ~Truthy(data) /\ resp.content_length # 0
       THEN Dict({"message"}, resp.text, 0, "")
       ELSE data

\* The payload of a response: JSON when declared and decodable, else the
\* text wrapped as {"message": text} when there is a body, else None.
DecodeData(resp) ==
    LET j == IF resp.content_type = "application/json"
             THEN resp_json(resp.text) ELSE PyNone
        data == IF j = ValueError THEN PyNone ELSE j
    IN IF data = PyNone /\ resp.content_length # 0
       THEN Dict({"message"}, resp.text, 0, "")
       ELSE data

ForbiddenMessage(data) == Get(OrEmpty(data), "message", "Unauthorized")

RetryAfterOf(resp) == Get(OrEmpty(DecodeData(resp)), "retry_after", DefaultRetryAfter)

\* body.get("bucket") or resp.headers.get("X-RateLimit-Bucket")
BucketOf(resp) ==
    LET b == Get(OrEmpty(DecodeData(resp)), "bucket", NoneStr)
    IN IF b \notin {NoneStr, ""} THEN b ELSE resp.hdr_bucket

\* Variant: a throttled attempt is retried whichever attempt it is.
ShouldRetry_AnyAttempt(attempt, resp) ==
    resp.status = 429 /\ RetryAfterOf(resp) > 0

\* The attempt sleeps and is retried: first attempt and a positive delay.
ShouldRetry(attempt, resp) ==
    resp.status = 429 /\ attempt = 0 /\ RetryAfterOf(resp) > 0

\* Variant: the reason phrase is not consulted.
GenericMessage_NoReason(resp) ==
    Get(OrEmpty(DecodeData(resp)), "message", HttpStatusText(resp.status))

GenericMessage(resp) ==
    Get(OrEmpty(DecodeData(resp)), "message",
        IF resp.reason # "" THEN resp.reason ELSE HttpStatusText(resp.status))

\* Variant: no branch for 403, which falls through to the generic failure.
Classify_No403(resp) ==
    LET data == DecodeData(resp) IN
    CASE resp.status = 200 -> Return(data)
      [] resp.status = 429 ->
            RateLimited(Get(OrEmpty(data), "message", "Rate limited"),
                        RetryAfterOf(resp), BucketOf(resp))
      [] OTHER -> HTTPException(resp.status, GenericMessage(resp), data)

\* The outcome of an attempt that is not retried.
Classify(resp) ==
    LET data == DecodeData(resp) IN
    CASE resp.status = 200 -> Return(data)
      [] resp.status = 403 -> Forbidden(ForbiddenMessage(data))
      [] resp.status = 429 ->
            RateLimited(Get(OrEmpty(data), "message", "Rate limited"),
                        RetryAfterOf(resp), BucketOf(resp))
      [] OTHER -> HTTPException(resp.status, GenericMessage(resp), data)

\* `raise HTTPException(429, "Rate limited")` after the loop.
LoopFallback == HTTPException(429, "Rate limited", PyNone)

(***************************************************************************)
(* State                                                                   *)
(*  http     : the HTTPClient's fields; _session = 0 is None               *)
(*  sessions : every session that exists, by id; creator is "transport"    *)
(*             for one made by _get_session, "external" for an injected one*)
(*  calls    : per task, the request() call it is in                       *)
(*             (pc, loop variable attempt, local variable session, the     *)
(*             attempts and waits it made in order, the responses it got,  *)
(*             the seconds left and spent in its sleep, how it ended)      *)
(*  issued   : number of request() calls started                           *)
(*  last     : the operation that took the last step                       *)
(*  client   : the Client's fields; _http is TRUE when it holds a transport,*)
(*             which is then the one described by http                     *)
(*  runner   : where the run() call is                                     *)
(*  closing  : per caller, whether its Client.close() is suspended         *)
(*  built    : per transport constructed, the credentials it was given     *)
(*  mapio    : a typed operation's payload and what it is mapped to        *)
(***************************************************************************)
NewSession(creator) == [creator |-> creator, closed |-> FALSE, closes |-> 0]

\* session.close()
CloseSession(ss, s) == [ss EXCEPT ![s].closed = TRUE, ![s].closes = @ + 1]

\* The value of a header that is not sent.
Absent == "<absent>"

NoCreds == [server_key |-> NoneStr, authorization |-> NoneStr]

\* Variant: the headers are read from the client's current credentials.
Headers_FromClient(h) ==
    [server_key |-> client.server_key, content_type |-> "application/json",
     authorization |-> IF client.authorization \notin {NoneStr, ""}
                       THEN client.authorization ELSE Absent]

\* HTTPClient._headers()
Headers(h) ==
    [server_key |-> h.server_key, content_type |-> "application/json",
     authorization |-> IF h.authorization \notin {NoneStr, ""}
                       THEN h.authorization ELSE Absent]

\* `self` is the transport the call runs on (its number and credentials),
\* hdrs the headers of each attempt, seq the number of the call, overlapped
\* the tasks that were in their retry sleep when the call started.
IdleCall ==
    [pc |-> "idle", attempt |-> 0, session |-> 0, events |-> <<>>,
     resps |-> <<>>, remaining |-> 0, slept |-> 0, outcome |-> NoOutcome,
     tid |-> 0, self |-> NoCreds, hdrs |-> <<>>, seq |-> 0, overlapped |-> {}]

AttemptEv(n) == [ev |-> "attempt", arg |-> n]
WaitEv(d) == [ev |-> "wait", arg |-> d]

\* HTTPClient(server_key, authorization=..., session=None), the id-th
\* transport constructed.
NewHTTPClient(id, server_key, authorization) ==
    [_session |-> 0, _owned_session |-> TRUE, server_key |-> server_key,
     authorization |-> authorization, id |-> id]

CredsOf(h) == [server_key |-> h.server_key, authorization |-> h.authorization]

\* Names of the extension events a handler can be registered under.
EventNames == {"on_join", "on_leave"}

\* Client(server_key, authorization=...)
NewClient(server_key, authorization) ==
    [server_key |-> server_key, authorization |-> authorization,
     _http |-> FALSE, _on_ready |-> 0, _events |-> [n \in EventNames |-> 0],
     _closed |-> FALSE]

\* run() has not been called.
IdleRunner == [pc |-> "idle", exc |-> "none", ready_calls |-> 0, shutdowns |-> 0]

\* Who can be inside Client.close(): the run() call and a task of the user.
Closers == {"runner", "user"}

\* No typed operation is being mapped.
NoMap == [op |-> "none", payload |-> "none", result |-> "none"]

\* The state of the parts a specification does not use.
NoClient ==
    /\ client = NewClient(NoneStr, NoneStr)
    /\ runner = IdleRunner
    /\ closing = [w \in Closers |-> "none"]

\* HTTPClient(server_key): no session yet, the transport will own its own.
InitOwned ==
    /\ http = NewHTTPClient(1, "K1", NoneStr)
    /\ sessions = <<>>

\* HTTPClient(server_key, session=s): an externally created session.
InitInjected ==
    /\ http = [NewHTTPClient(1, "K1", NoneStr) EXCEPT !._session = 1, !._owned_session = FALSE]
    /\ sessions = <<NewSession("external")>>

Init ==
    /\ InitOwned \/ InitInjected
    /\ calls = [t \in Tasks |-> IdleCall]
    /\ issued = 0
    /\ last = [op |-> "init", released |-> 0]
    /\ NoClient
    /\ built = <<CredsOf(http)>>
    /\ mapio = NoMap

\* _get_session on transport h: the session to use and the sessions after
\* the call.
NeedsNewSession(h) == h._session = 0 \/ sessions[h._session].closed

GetSessionId(h) == IF NeedsNewSession(h) THEN Len(sessions) + 1 ELSE h._session

GetSessionAll(h) ==
    IF NeedsNewSession(h) THEN Append(sessions, NewSession("transport")) ELSE sessions

\* request() on transport h: _get_session and the start of attempt 0, which
\* run without a suspension point between them.
RequestOn(h, t) ==
    /\ calls[t].pc \in {"idle", "done", "abandoned"}
    /\ issued < MaxCalls
    /\ sessions' = GetSessionAll(h)
    /\ http' = [h EXCEPT !._session = GetSessionId(h)]
    /\ calls' = [calls EXCEPT ![t] =
                    [IdleCall EXCEPT !.pc = "inflight", !.session = GetSessionId(h),
                                     !.events = <<AttemptEv(0)>>,
                                     !.tid = h.id, !.self = CredsOf(h),
                                     !.hdrs = <<Headers(h)>>,
                                     !.seq = issued + 1,
                                     !.overlapped = {u \in DOMAIN calls : calls[u].pc = "sleeping"}]]
    /\ issued' = issued + 1
    /\ last' = [op |-> "request", released |-> 0]

\* HTTPClient.request() called on the transport directly.
Request(t) ==
    /\ RequestOn(http, t)
    /\ UNCHANGED cvars

\* Variant: a failing retry reports what the first attempt's response said.
Respond_StaleFirst(t, resp) ==
    LET c == calls[t] IN
    /\ c.pc = "inflight"
    /\ calls' = [calls EXCEPT ![t] =
          IF ShouldRetry(c.attempt, resp)
          THEN [c EXCEPT !.pc = "sleeping",
                         !.resps = Append(@, resp),
                         !.remaining = RetryAfterOf(resp),
                         !.events = Append(@, WaitEv(RetryAfterOf(resp)))]
          ELSE [c EXCEPT !.pc = "done",
                         !.resps = Append(@, resp),
                         !.outcome = IF resp.status = 429 /\ c.resps # <<>>
                                     THEN Classify(c.resps[1])
                                     ELSE Classify(resp)]]
    /\ last' = [op |-> "respond", released |-> 0]
    /\ UNCHANGED <<http, sessions, issued>>
    /\ UNCHANGED cvars

\* Variant: a response is handled only while no other call sleeps, as if
\* the retry wait held the event loop.
Respond_Blocking(t, resp) ==
    LET c == calls[t] IN
    /\ c.pc = "inflight"
    /\ \A u \in DOMAIN calls \ {t} : calls[u].pc # "sleeping"
    /\ calls' = [calls EXCEPT ![t] =
          IF ShouldRetry(c.attempt, resp)
          THEN [c EXCEPT !.pc = "sleeping",
                         !.resps = Append(@, resp),
                         !.remaining = RetryAfterOf(resp),
                         !.events = Append(@, WaitEv(RetryAfterOf(resp)))]
          ELSE [c EXCEPT !.pc = "done",
                         !.resps = Append(@, resp),
                         !.outcome = Classify(resp)]]
    /\ last' = [op |-> "respond", released |-> 0]
    /\ UNCHANGED <<http, sessions, issued>>
    /\ UNCHANGED cvars

\* Variant: a throttled second attempt goes on to the end of the loop
\* instead of raising, so that the statement after the loop runs.
Respond_ContinueOn429(t, resp) ==
    LET c == calls[t] IN
    /\ c.pc = "inflight"
    /\ calls' = [calls EXCEPT ![t] =
          IF ShouldRetry(c.attempt, resp)
          THEN [c EXCEPT !.pc = "sleeping",
                         !.resps = Append(@, resp),
                         !.remaining = RetryAfterOf(resp),
                         !.events = Append(@, WaitEv(RetryAfterOf(resp)))]
          ELSE [c EXCEPT !.pc = "done",
                         !.resps = Append(@, resp),
                         !.outcome = IF resp.status = 429 /\ c.attempt = 1
                                     THEN LoopFallback
                                     ELSE Classify(resp)]]
    /\ last' = [op |-> "respond", released |-> 0]
    /\ UNCHANGED <<http, sessions, issued>>
    /\ UNCHANGED cvars

\* The response to the attempt in flight arrives and is handled.
Respond(t, resp) ==
    LET c == calls[t] IN
    /\ c.pc = "inflight"
    /\ calls' = [calls EXCEPT ![t] =
          IF ShouldRetry(c.attempt, resp)
          THEN [c EXCEPT !.pc = "sleeping",
                         !.resps = Append(@, resp),
                         !.remaining = RetryAfterOf(resp),
                         !.events = Append(@, WaitEv(RetryAfterOf(resp)))]
          ELSE [c EXCEPT !.pc = "done",
                         !.resps = Append(@, resp),
                         !.outcome = Classify(resp)]]
    /\ last' = [op |-> "respond", released |-> 0]
    /\ UNCHANGED <<http, sessions, issued>>
    /\ UNCHANGED cvars

\* One second of asyncio.sleep(retry_after) passes.
Tick(t) ==
    /\ calls[t].pc = "sleeping"
    /\ calls[t].remaining > 0
    /\ calls' = [calls EXCEPT ![t].remaining = @ - 1, ![t].slept = @ + 1]
    /\ last' = [op |-> "tick", released |-> 0]
    /\ UNCHANGED <<http, sessions, issued>>
    /\ UNCHANGED cvars

\* Variant: the retry does not advance the loop variable.
Resume_NoAdvance(t) ==
    LET c == calls[t] IN
    /\ c.pc = "sleeping"
    /\ c.remaining = 0
    /\ calls' = [calls EXCEPT ![t] =
          IF sessions[c.session].closed
          THEN [c EXCEPT !.pc = "done",
                         !.events = Append(@, AttemptEv(c.attempt + 1)),
                         !.outcome = SessionClosedError]
          ELSE [c EXCEPT !.pc = "inflight",
                         !.events = Append(@, AttemptEv(c.attempt + 1))]]
    /\ last' = [op |-> "resume", released |-> 0]
    /\ UNCHANGED <<http, sessions, issued>>
    /\ UNCHANGED cvars

\* The sleep is over: `continue` to the next iteration of range(2), which
\* starts the next attempt on the session the call already holds.
Resume(t) ==
    LET c == calls[t]
        next == c.attempt + 1
    IN
    /\ c.pc = "sleeping"
    /\ c.remaining = 0
    /\ calls' = [calls EXCEPT ![t] =
          IF next >= 2
          THEN [c EXCEPT !.pc = "done", !.outcome = LoopFallback]
          ELSE IF sessions[c.session].closed
          THEN [c EXCEPT !.pc = "done", !.attempt = next,
                         !.events = Append(@, AttemptEv(next)),
                         !.hdrs = Append(@, Headers(c.self)),
                         !.outcome = SessionClosedError]
          ELSE [c EXCEPT !.pc = "inflight", !.attempt = next,
                         !.events = Append(@, AttemptEv(next)),
                         !.hdrs = Append(@, Headers(c.self))]]
    /\ last' = [op |-> "resume", released |-> 0]
    /\ UNCHANGED <<http, sessions, issued>>
    /\ UNCHANGED cvars

\* HTTPClient.close()
Releases == http._owned_session /\ http._session # 0
            /\ ~sessions[http._session].closed

\* The sessions after HTTPClient.close().
ClosedSessions == IF Releases THEN CloseSession(sessions, http._session) ELSE sessions

Close ==
    /\ sessions' = ClosedSessions
    /\ last' = [op |-> "close", released |-> IF Releases THEN http._session ELSE 0]
    /\ UNCHANGED <<http, calls, issued>>
    /\ UNCHANGED cvars

\* The owner of an injected session closes it.
ExternalClose ==
    /\ \E s \in DOMAIN sessions :
          /\ sessions[s].creator = "external"
          /\ ~sessions[s].closed
          /\ sessions' = CloseSession(sessions, s)
    /\ last' = [op |-> "external_close", released |-> 0]
    /\ UNCHANGED <<http, calls, issued>>
    /\ UNCHANGED cvars

Next ==
    \/ \E t \in Tasks : Request(t)
    \/ \E t \in Tasks : \E resp \in Responses : Respond(t, resp)
    \/ \E t \in Tasks : Tick(t)
    \/ \E t \in Tasks : Resume(t)
    \/ Close
    \/ ExternalClose

Spec == Init /\ [][Next]_vars

(***************************************************************************)
(* What the server sent, read off the response without the client's        *)
(* decoding                                                                 *)
(***************************************************************************)
SentHas(resp, key) == resp.body.kind = "dict" /\ key \in resp.body.keys

SentRetryAfter(resp) == IF SentHas(resp, "retry_after") THEN resp.body.retry_after ELSE 5

SentBucket(resp) ==
    IF SentHas(resp, "bucket") /\ resp.body.bucket # ""
    THEN resp.body.bucket ELSE resp.hdr_bucket

\* The payload of a response: its JSON value, else its text as the message.
SentPayload(resp) ==
    IF resp.body.kind \in {"dict", "list"} THEN resp.body
    ELSE IF resp.text # "" THEN Dict({"message"}, resp.text, 0, "")
    ELSE PyNone

AttemptsOf(c) == Cardinality({i \in DOMAIN c.events : c.events[i].ev = "attempt"})
WaitsOf(c) == Cardinality({i \in DOMAIN c.events : c.events[i].ev = "wait"})
LastResp(c) == c.resps[Len(c.resps)]

\* C1: every logical request() call makes at most two attempts, whatever
\* the server answers.
C1_AtMostTwoAttempts ==
    \A t \in DOMAIN calls : AttemptsOf(calls[t]) <= 2 /\ Len(calls[t].resps) <= 2

C1_Witness ==
    \E t \in DOMAIN calls :
        calls[t].pc = "done" /\ AttemptsOf(calls[t]) = 2 /\ Len(calls[t].resps) = 2

\* C2: after a first attempt answered 429 with retry_after > 0 the call
\* waits exactly once, for retry_after seconds, and then makes exactly one
\* second attempt: its events are attempt 0, the wait, attempt 1, in that
\* order, with nothing after attempt 1.
C2_WaitOnceThenRetryOnce ==
    \A t \in DOMAIN calls :
        LET c == calls[t] IN
        (Len(c.resps) >= 1 /\ c.resps[1].status = 429 /\ SentRetryAfter(c.resps[1]) > 0)
        => LET d == SentRetryAfter(c.resps[1])
               full == <<AttemptEv(0), WaitEv(d), AttemptEv(1)>>
           IN /\ c.pc = "sleeping" => c.events = SubSeq(full, 1, 2) /\ c.slept <= d
              /\ c.pc # "sleeping" => c.events = full /\ c.slept = d
              /\ c.pc = "done" => c.attempt = 1

C2_Witness ==
    \E t \in DOMAIN calls :
        LET c == calls[t] IN
        /\ c.pc = "done" /\ Len(c.resps) = 2
        /\ c.resps[1].status = 429 /\ c.resps[2].status = 429
        /\ SentRetryAfter(c.resps[1]) = 2 /\ c.slept = 2
        /\ c.events = <<AttemptEv(0), WaitEv(2), AttemptEv(1)>>

\* C3: after a first attempt answered 429 with retry_after = 0 the call
\* does not wait and makes a second attempt: it does not end on its first
\* attempt.
C3_ZeroDelayRetriesAtOnce ==
    \A t \in DOMAIN calls :
        LET c == calls[t] IN
        (Len(c.resps) >= 1 /\ c.resps[1].status = 429 /\ SentRetryAfter(c.resps[1]) = 0)
        => /\ WaitsOf(c) = 0
           /\ ~(c.pc = "done" /\ AttemptsOf(c) = 1)

\* C4: when the second attempt is answered 429 too, the call fails with
\* RateLimited carrying the retry_after and the bucket of the second
\* response (the body's bucket, else the X-RateLimit-Bucket header).
C4_ThrottledCarriesSecondAttempt ==
    \A t \in DOMAIN calls :
        LET c == calls[t] IN
        (Len(c.resps) = 2 /\ c.resps[2].status = 429)
        => /\ c.pc = "done"
           /\ c.outcome.kind = "RateLimited"
           /\ c.outcome.status = 429
           /\ c.outcome.retry_after = SentRetryAfter(c.resps[2])
           /\ c.outcome.bucket = SentBucket(c.resps[2])

C4_Witness ==
    \E t \in DOMAIN calls :
        LET c == calls[t] IN
        /\ c.pc = "done" /\ Len(c.resps) = 2
        /\ c.resps[1].status = 429 /\ c.resps[2].status = 429
        /\ SentRetryAfter(c.resps[1]) # SentRetryAfter(c.resps[2])
        /\ SentBucket(c.resps[1]) # SentBucket(c.resps[2])
        /\ c.outcome.kind = "RateLimited"
        /\ c.outcome.bucket = "b2" /\ c.outcome.retry_after = 1

\* C5: an attempt answered 403 ends the call with Forbidden at once: it is
\* the call's last attempt, and a 403 on the first attempt means exactly
\* one attempt and no wait.
C5_ForbiddenNeverRetried ==
    \A t \in DOMAIN calls :
        LET c == calls[t] IN
        \A i \in DOMAIN c.resps :
            c.resps[i].status = 403
            => /\ c.pc = "done"
               /\ c.outcome.kind = "Forbidden"
               /\ c.outcome.status = 403
               /\ i = Len(c.resps)
               /\ AttemptsOf(c) = i
               /\ WaitsOf(c) = i - 1
               /\ i = 1 => c.events = <<AttemptEv(0)>>

C5_Witness ==
    \E t \in DOMAIN calls :
        LET c == calls[t] IN
        /\ c.pc = "done" /\ Len(c.resps) = 1 /\ c.resps[1].status = 403
        /\ c.outcome.kind = "Forbidden" /\ AttemptsOf(c) = 1

\* C6: the Forbidden raised for a 403 carries the body's `message` when the
\* body has one, and otherwise the message "Invalid or unauthorized server
\* key".
C6_ForbiddenMessage ==
    \A t \in DOMAIN calls :
        LET c == calls[t] IN
        (c.pc = "done" /\ c.resps # <<>> /\ LastResp(c).status = 403)
        => /\ SentHas(LastResp(c), "message")
                => c.outcome.message = LastResp(c).body.message
           /\ SentPayload(LastResp(c)) \in {PyNone, EmptyDict}
                => c.outcome.message = "Invalid or unauthorized server key"

\* C7: an attempt (first or second) answered 200 with a JSON object body
\* makes the call return exactly that object; a 200 without a body returns
\* None.
C7_OkReturnsBody ==
    \A t \in DOMAIN calls :
        LET c == calls[t] IN
        (c.resps # <<>> /\ LastResp(c).status = 200)
        => /\ c.pc = "done"
           /\ c.outcome.kind = "return"
           /\ (LastResp(c).content_type = "application/json" /\ LastResp(c).body.kind = "dict")
                => c.outcome.value = LastResp(c).body
           /\ LastResp(c).text = "" => c.outcome.value = PyNone

C7_Witness ==
    \E t \in DOMAIN calls :
        LET c == calls[t] IN
        /\ c.pc = "done" /\ Len(c.resps) = 2 /\ LastResp(c).status = 200
        /\ LastResp(c).body = J_msg
        /\ c.outcome = Return(J_msg)

\* The message and payload an attempt answered with another status carries
\* by C8 as stated: the body's message, else the reason phrase.
SentMessageOrReason(resp) ==
    IF SentPayload(resp).kind = "dict" /\ "message" \in SentPayload(resp).keys
    THEN SentPayload(resp).message ELSE resp.reason

\* An attempt answered with a status other than 200, 403 and 429 ends the
\* call with HTTPException carrying that status and the decoded body (an
\* empty mapping when there is none), without a retry or a further wait.
GenericFailureAt(c, i) ==
    /\ c.pc = "done"
    /\ c.outcome.kind = "HTTPException"
    /\ c.outcome.status = c.resps[i].status
    /\ c.outcome.response_data = OrEmpty(SentPayload(c.resps[i]))
    /\ i = Len(c.resps)
    /\ AttemptsOf(c) = i
    /\ WaitsOf(c) = i - 1

\* C8 as stated: the failure's message is the body's `message`, else the
\* HTTP reason phrase.
C8_GenericFailureAsStated ==
    \A t \in DOMAIN calls :
        LET c == calls[t] IN
        \A i \in DOMAIN c.resps :
            c.resps[i].status \notin {200, 403, 429}
            => /\ GenericFailureAt(c, i)
               /\ c.outcome.message = SentMessageOrReason(c.resps[i])

\* C8 (amended): the failure's message is the body's `message`, else the
\* HTTP reason phrase, else "HTTP <status>" when the response has no reason
\* phrase.
C8_GenericFailure ==
    \A t \in DOMAIN calls :
        LET c == calls[t] IN
        \A i \in DOMAIN c.resps :
            c.resps[i].status \notin {200, 403, 429}
            => /\ GenericFailureAt(c, i)
               /\ c.outcome.message =
                     IF SentMessageOrReason(c.resps[i]) # ""
                     THEN SentMessageOrReason(c.resps[i])
                     ELSE IF c.resps[i].status = 500 THEN "HTTP 500" ELSE "HTTP 404"

C8_Witness ==
    \E t \in DOMAIN calls :
        LET c == calls[t] IN
        /\ c.pc = "done" /\ Len(c.resps) = 2
        /\ LastResp(c).status = 500 /\ LastResp(c).reason = ""
        /\ LastResp(c).text = ""
        /\ c.outcome.kind = "HTTPException"
        /\ c.outcome.message = "HTTP 500"

\* C9: close() releases the current session exactly when the transport
\* created it: never an injected one, always one it created (a recreated
\* one included); a close after a close changes nothing.
C9_CloseReleasesOwnSessions ==
    [][last'.op = "close" =>
         /\ \A s \in DOMAIN sessions :
               sessions'[s] # sessions[s]
               => s = http._session /\ sessions[s].creator = "transport"
         /\ (http._session # 0 /\ sessions[http._session].creator = "transport")
               => sessions'[http._session].closed
         /\ last.op = "close" => sessions' = sessions]_vars

\* C10: the transport creates no session before the first request; a
\* request creates one exactly when the current one is absent or closed and
\* otherwise reuses it; at most one session is open at any time; no session
\* is closed twice, and once close() has run every session the transport
\* created has been closed exactly once.
C10_SessionLifecycle ==
    /\ [](/\ issued = 0 => \A s \in DOMAIN sessions : sessions[s].creator # "transport"
          /\ Cardinality({s \in DOMAIN sessions : ~sessions[s].closed}) <= 1
          /\ \A s \in DOMAIN sessions : sessions[s].closes <= 1
          /\ last.op = "close"
                => \A s \in DOMAIN sessions :
                      sessions[s].creator = "transport"
                      => sessions[s].closed /\ sessions[s].closes = 1)
    /\ [][last'.op = "request" =>
            IF http._session = 0 \/ sessions[http._session].closed
            THEN /\ sessions' = Append(sessions, NewSession("transport"))
                 /\ http'._session = Len(sessions')
            ELSE sessions' = sessions /\ http' = http]_vars

(***************************************************************************)
(* client.py: the Client, its typed operations, run() and close()          *)
(*                                                                         *)
(* All tasks share one event loop: a step of the model is what one task    *)
(* does between two suspension points.  run() blocks its thread on a loop  *)
(* of its own, so it starts only when no call is suspended, and the calls  *)
(* still pending when it closes its loop are abandoned.                    *)
(***************************************************************************)
\* Tasks that issue typed operations on the client, besides the task that
\* closes it and the one inside run().
ClientTasks == {"t1"}

\* What the server answers in the client specification.
ClientResponses ==
    {JsonResp(200, "OK", NoneStr, J_msg), NoBodyResp(403, "Forbidden", NoneStr),
     JsonResp(429, "Too Many Requests", NoneStr, J_full)}

\* Credentials given to Client(...) and to run(...).
InitKeys == {NoneStr, "K1"}
InitAuths == {NoneStr, "A1"}
RunCreds == {[server_key |-> NoneStr, authorization |-> NoneStr],
             [server_key |-> "", authorization |-> NoneStr],
             [server_key |-> "K2", authorization |-> "A2"]}

\* A handler passed to Client.event: its __name__, whether it is a
\* coroutine function, and which function it is.
Handler(name, coro, id) == [name |-> name, coro |-> coro, id |-> id]

\* The handlers registered in the client specification.
ClientHandlers == {Handler("on_ready", TRUE, 1)}

\* The placeholder for http while the client holds no transport.
NoHttp == NewHTTPClient(0, NoneStr, NoneStr)

InitClient ==
    /\ \E k \in InitKeys, a \in InitAuths : client = NewClient(k, a)
    /\ runner = IdleRunner
    /\ closing = [w \in Closers |-> "none"]
    /\ http = NoHttp
    /\ sessions = <<>>
    /\ built = <<>>
    /\ calls = [t \in ClientTasks |-> IdleCall]
    /\ issued = 0
    /\ last = [op |-> "init", released |-> 0]
    /\ mapio = NoMap

\* event() that stores the handler before it checks it.
Event_StoreBeforeCheck(h) ==
    /\ last' = [op |-> IF h.coro THEN "event" ELSE "event_TypeError", released |-> 0]
    /\ client' = IF h.name = "on_ready"
                 THEN [client EXCEPT !._on_ready = h.id]
                 ELSE [client EXCEPT !._events[h.name] = h.id]
    /\ UNCHANGED <<http, sessions, calls, issued, runner, closing, built, mapio>>

\* Client.event(coro)
Event(h) ==
    /\ IF ~h.coro
       THEN /\ last' = [op |-> "event_TypeError", released |-> 0]
            /\ UNCHANGED client
       ELSE /\ last' = [op |-> "event", released |-> 0]
            /\ client' = IF h.name = "on_ready"
                         THEN [client EXCEPT !._on_ready = h.id]
                         ELSE [client EXCEPT !._events[h.name] = h.id]
    /\ UNCHANGED <<http, sessions, calls, issued, runner, closing, built, mapio>>

\* `not self.server_key`
NoKey(c) == c.server_key \in {NoneStr, ""}

\* _ensure_http() without the check of the server key.
EnsureRaises_NoKeyCheck(c) == FALSE

\* _ensure_http() on client c: whether it raises, and otherwise the
\* transport it returns and the transports constructed so far.
EnsureRaises(c) == ~c._http /\ NoKey(c)

EnsuredHttp(c) ==
    IF c._http THEN http
    ELSE NewHTTPClient(Len(built) + 1, c.server_key, c.authorization)

EnsuredBuilt(c) ==
    IF c._http THEN built ELSE Append(built, CredsOf(EnsuredHttp(c)))

\* raise RuntimeError("Server API has not been set.")
ConfigError == [NoOutcome EXCEPT !.kind = "ConfigError",
                                 !.message = "Server API has not been set."]

\* A typed operation (get_server, get_players, ...) up to its first
\* suspension: _ensure_http(), then request() on the transport.
Op(t) ==
    IF EnsureRaises(client)
    THEN /\ calls[t].pc \in {"idle", "done", "abandoned"}
         /\ issued < MaxCalls
         /\ calls' = [calls EXCEPT ![t] =
                         [IdleCall EXCEPT !.pc = "done", !.outcome = ConfigError,
                                          !.seq = issued + 1]]
         /\ issued' = issued + 1
         /\ last' = [op |-> "op_error", released |-> 0]
         /\ UNCHANGED <<http, sessions, client, runner, closing, built, mapio>>
    ELSE /\ RequestOn(EnsuredHttp(client), t)
         /\ client' = [client EXCEPT !._http = TRUE]
         /\ built' = EnsuredBuilt(client)
         /\ UNCHANGED <<runner, closing, mapio>>

(***************************************************************************)
(* Client.close(): `if self._closed: return`, then, with a transport,      *)
(* `await self._http.close()`, then `self._http = None`, and               *)
(* `self._closed = True`.  HTTPClient.close() awaits session.close() only  *)
(* when it has an owned open session: that closes the session and may      *)
(* suspend the caller; otherwise close() runs to its end in one step.      *)
(***************************************************************************)
CloseSuspends(c) == ~c._closed /\ c._http /\ Releases

\* The client after the statements that follow the await in close().
AfterClose(c) == [c EXCEPT !._http = FALSE, !._closed = TRUE]

\* close() without the `if self._closed: return` guard.
UserClose_NoGuard ==
    /\ closing["user"] = "none"
    /\ IF client._http /\ Releases
       THEN /\ sessions' = ClosedSessions
            /\ closing' = [closing EXCEPT !["user"] = "awaiting"]
            /\ last' = [op |-> "client_close", released |-> http._session]
            /\ UNCHANGED client
       ELSE /\ client' = AfterClose(client)
            /\ last' = [op |-> "client_close", released |-> 0]
            /\ UNCHANGED <<sessions, closing>>
    /\ UNCHANGED <<http, calls, issued, runner, built, mapio>>

\* close() called by a task of the user, up to its suspension or return.
UserClose ==
    /\ closing["user"] = "none"
    /\ IF client._closed
       THEN /\ last' = [op |-> "client_close_noop", released |-> 0]
            /\ UNCHANGED <<client, sessions, closing>>
       ELSE IF CloseSuspends(client)
       THEN /\ sessions' = ClosedSessions
            /\ closing' = [closing EXCEPT !["user"] = "awaiting"]
            /\ last' = [op |-> "client_close", released |-> http._session]
            /\ UNCHANGED client
       ELSE /\ client' = AfterClose(client)
            /\ last' = [op |-> "client_close", released |-> 0]
            /\ UNCHANGED <<sessions, closing>>
    /\ UNCHANGED <<http, calls, issued, runner, built, mapio>>

\* The user's close() resumes and returns.
UserCloseEnd ==
    /\ closing["user"] = "awaiting"
    /\ client' = AfterClose(client)
    /\ closing' = [closing EXCEPT !["user"] = "none"]
    /\ last' = [op |-> "client_close_end", released |-> 0]
    /\ UNCHANGED <<http, sessions, calls, issued, runner, built, mapio>>

(***************************************************************************)
(* Client.run()                                                            *)
(***************************************************************************)
\* loop.close(): the calls still pending on run()'s loop never resume.
AbandonedCalls ==
    [t \in DOMAIN calls |->
        IF calls[t].pc \in {"inflight", "sleeping"}
        THEN [calls[t] EXCEPT !.pc = "abandoned"] ELSE calls[t]]

\* run() closes its loop and returns, or propagates the exception exc.
Finish(r, exc, c) ==
    /\ runner' = [r EXCEPT !.pc = IF exc = "none" THEN "returned" ELSE "raised",
                           !.exc = exc]
    /\ client' = c
    /\ calls' = AbandonedCalls
    /\ closing' = [w \in Closers |-> "none"]

\* run() reaches a `finally` with client c and pending exception exc:
\* Client.close() returns at once when the client is closed or nothing is
\* awaited, after which run() finishes, and otherwise suspends.
RunnerClose(r, exc, c, suspended_pc) ==
    IF c._closed
    THEN Finish(r, exc, c) /\ UNCHANGED sessions
    ELSE IF CloseSuspends(c)
    THEN /\ sessions' = ClosedSessions
         /\ closing' = [closing EXCEPT !["runner"] = "awaiting"]
         /\ runner' = [r EXCEPT !.pc = suspended_pc, !.exc = exc,
                                !.shutdowns = @ + 1]
         /\ client' = c
         /\ UNCHANGED calls
    ELSE /\ Finish([r EXCEPT !.shutdowns = @ + 1], exc, AfterClose(c))
         /\ UNCHANGED sessions

\* run() that goes to the wait without invoking the ready callback.
Run_SkipCallback(k, a) ==
    LET c1 == [client EXCEPT !.server_key = IF k # NoneStr THEN k ELSE @,
                             !.authorization = IF a # NoneStr THEN a ELSE @]
    IN
    /\ runner.pc \in {"idle", "returned", "raised"}
    /\ \A t \in DOMAIN calls : calls[t].pc \notin {"inflight", "sleeping"}
    /\ \A w \in Closers : closing[w] = "none"
    /\ last' = [op |-> "run", released |-> 0]
    /\ IF EnsureRaises(c1)
       THEN /\ RunnerClose(IdleRunner, "RuntimeError", c1, "outer_close")
            /\ UNCHANGED <<http, built>>
       ELSE /\ http' = EnsuredHttp(c1)
            /\ built' = EnsuredBuilt(c1)
            /\ client' = [c1 EXCEPT !._http = TRUE]
            /\ runner' = [IdleRunner EXCEPT !.pc = "waiting"]
            /\ UNCHANGED <<sessions, calls, closing>>
    /\ UNCHANGED <<issued, mapio>>

\* run(server_key, authorization=...) up to the first suspension: sets the
\* credentials given, then _start(): _ensure_http() and the ready callback.
Run(k, a) ==
    LET c1 == [client EXCEPT !.server_key = IF k # NoneStr THEN k ELSE @,
                             !.authorization = IF a # NoneStr THEN a ELSE @]
    IN
    /\ runner.pc \in {"idle", "returned", "raised"}
    /\ \A t \in DOMAIN calls : calls[t].pc \notin {"inflight", "sleeping"}
    /\ \A w \in Closers : closing[w] = "none"
    /\ last' = [op |-> "run", released |-> 0]
    /\ IF EnsureRaises(c1)
       THEN /\ RunnerClose(IdleRunner, "RuntimeError", c1, "outer_close")
            /\ UNCHANGED <<http, built>>
       ELSE /\ http' = EnsuredHttp(c1)
            /\ built' = EnsuredBuilt(c1)
            /\ client' = [c1 EXCEPT !._http = TRUE]
            /\ runner' = IF c1._on_ready # 0
                         THEN [IdleRunner EXCEPT !.pc = "callback", !.ready_calls = 1]
                         ELSE [IdleRunner EXCEPT !.pc = "waiting"]
            /\ UNCHANGED <<sessions, calls, closing>>
    /\ UNCHANGED <<issued, mapio>>

\* The ready callback returns: _runner awaits the future.
CallbackReturn ==
    /\ runner.pc = "callback"
    /\ runner' = [runner EXCEPT !.pc = "waiting"]
    /\ last' = [op |-> "callback_return", released |-> 0]
    /\ UNCHANGED <<http, sessions, calls, issued, client, closing, built, mapio>>

\* The ready callback raises: the exception leaves _runner, the outer
\* `finally` runs.
CallbackRaise ==
    /\ runner.pc = "callback"
    /\ RunnerClose(runner, "CallbackError", client, "outer_close")
    /\ last' = [op |-> "callback_raise", released |-> 0]
    /\ UNCHANGED <<http, issued, built, mapio>>

\* The wait is cancelled: CancelledError is swallowed and the inner
\* `finally` awaits close().
Cancel ==
    /\ runner.pc = "waiting"
    /\ RunnerClose(runner, "none", client, "inner_close")
    /\ last' = [op |-> "cancel", released |-> 0]
    /\ UNCHANGED <<http, issued, built, mapio>>

\* KeyboardInterrupt during the wait: swallowed by run(), whose outer
\* `finally` runs close() if the client is not closed.
Interrupt ==
    /\ runner.pc = "waiting"
    /\ RunnerClose(runner, "none", client, "outer_close")
    /\ last' = [op |-> "interrupt", released |-> 0]
    /\ UNCHANGED <<http, issued, built, mapio>>

\* The close() awaited by run() resumes; the client is closed, so nothing
\* is left to do in the outer `finally` and run() finishes.
RunnerCloseEnd ==
    /\ runner.pc \in {"inner_close", "outer_close"}
    /\ closing["runner"] = "awaiting"
    /\ Finish(runner, runner.exc, AfterClose(client))
    /\ last' = [op |-> "runner_close_end", released |-> 0]
    /\ UNCHANGED <<http, sessions, issued, built, mapio>>

NextClient ==
    \/ \E h \in ClientHandlers : Event(h)
    \/ \E t \in ClientTasks : Op(t)
    \/ \E t \in ClientTasks : \E resp \in ClientResponses : Respond(t, resp)
    \/ \E t \in ClientTasks : Tick(t)
    \/ \E t \in ClientTasks : Resume(t)
    \/ UserClose
    \/ UserCloseEnd
    \/ \E cr \in RunCreds : Run(cr.server_key, cr.authorization)
    \/ CallbackReturn
    \/ CallbackRaise
    \/ Cancel
    \/ Interrupt
    \/ RunnerCloseEnd

SpecClient == InitClient /\ [][NextClient]_vars

\* The lifecycle state of the client: 0 uninitialized, 1 running (it holds
\* a transport), 2 closed.
Lifecycle(c) == IF c._closed THEN 2 ELSE IF c._http THEN 1 ELSE 0

\* C11: the lifecycle only moves forward, uninitialized -> running ->
\* closed: once close() has completed the client stays closed and no later
\* operation or run() makes it hold a transport again.
C11_LifecycleForwardOnly ==
    [][/\ Lifecycle(client') >= Lifecycle(client)
       /\ client._closed => client'._closed /\ ~client'._http]_vars

\* C12: Client.close is idempotent.  The first call closes the session its
\* transport holds and, when it completes, the client is closed and holds
\* no transport; a call made on a closed client changes nothing and closes
\* nothing (no path of close() raises), also when run() makes it.
C12_CloseIdempotent ==
    [][/\ last'.op \in {"client_close", "client_close_noop"} =>
             IF client._closed
             THEN UNCHANGED <<client, http, sessions, calls, issued, runner,
                              closing, built>>
             ELSE /\ client._http /\ http._session # 0 =>
                        sessions'[http._session].closed
                  /\ closing'["user"] = "none" =>
                        client'._closed /\ ~client'._http
       /\ last'.op = "client_close_end" => client'._closed /\ ~client'._http
       /\ last'.op \in {"cancel", "interrupt", "callback_raise"} /\ client._closed =>
             UNCHANGED <<client, http, sessions>>]_vars

\* A close() on a client that an earlier close() closed after releasing a
\* session: the session stays closed and the call returned at the guard.
C12_Witness ==
    /\ last.op = "client_close_noop"
    /\ client._closed /\ ~client._http
    /\ \E s \in DOMAIN sessions : sessions[s].closed

\* C13: a run() with a ready callback registered invokes it exactly once,
\* with the transport constructed, and enters the wait only when the
\* callback has returned; a run() with none registered invokes none and
\* enters the wait directly.  No later step invokes the callback again.
C13_ReadyCallbackOnce ==
    /\ [][/\ last'.op = "run" /\ runner'.pc \in {"callback", "waiting"} =>
               /\ client'._http /\ Len(built') >= 1
               /\ IF client._on_ready # 0
                  THEN runner'.pc = "callback" /\ runner'.ready_calls = 1
                  ELSE runner'.pc = "waiting" /\ runner'.ready_calls = 0
          /\ last'.op # "run" => runner'.ready_calls = runner.ready_calls
          /\ runner'.pc = "waiting" /\ runner.pc # "waiting" =>
               \/ runner.pc = "callback" /\ runner'.ready_calls = 1
               \/ last'.op = "run" /\ client._on_ready = 0]_vars
    /\ [](runner.pc = "callback" => runner.ready_calls = 1 /\ Len(built) >= 1)

\* run() waits after its ready callback was invoked once and returned.
C13_Witness ==
    /\ runner.pc = "waiting"
    /\ runner.ready_calls = 1
    /\ last.op = "callback_return"
    /\ client._on_ready # 0

\* C14: when the wait of run() is cancelled or interrupted, the session
\* the transport holds is closed at once, run() never raises, and when
\* run() returns Client.close() has completed (the client is closed and
\* holds no transport) and has gone past its guard at most once.
C14_ShutdownBeforeReturn ==
    [][/\ last'.op \in {"cancel", "interrupt"} =>
             /\ runner.pc = "waiting"
             /\ runner'.pc \in {"returned", "inner_close", "outer_close"}
             /\ runner'.exc = "none"
             /\ client._http /\ ~client._closed /\ http._session # 0 =>
                   sessions'[http._session].closed
       /\ runner.exc = "none" /\ last'.op = "runner_close_end" =>
             runner'.pc = "returned"
       /\ runner'.pc = "returned" /\ runner.pc # "returned" =>
             /\ runner.pc \in {"waiting", "inner_close", "outer_close"}
             /\ client'._closed /\ ~client'._http
             /\ runner'.exc = "none"
             /\ runner'.shutdowns <= 1]_vars

\* C15 as stated: with no server key configured a typed operation and
\* run() fail with the configuration error, constructing no transport,
\* making no attempt and invoking no ready callback.
C15_NoKeyFailsAsStated ==
    [][/\ last'.op \in {"request", "op_error"} /\ NoKey(client) =>
             /\ last'.op = "op_error"
             /\ built' = built /\ sessions' = sessions
             /\ \E t \in ClientTasks :
                   /\ calls'[t].seq = issued'
                   /\ calls'[t].outcome = ConfigError
                   /\ calls'[t].events = <<>>
       /\ last'.op = "run" /\ NoKey(client') =>
             /\ runner'.pc = "raised" /\ runner'.exc = "RuntimeError"
             /\ runner'.ready_calls = 0
             /\ built' = built /\ sessions' = sessions]_vars

\* C15, amended: the same for a client that holds no transport; a client
\* that holds one uses it whatever its server key has become.
C15_NoKeyFails ==
    [][/\ last'.op \in {"request", "op_error"} /\ NoKey(client) /\ ~client._http =>
             /\ last'.op = "op_error"
             /\ built' = built /\ sessions' = sessions
             /\ \E t \in ClientTasks :
                   /\ calls'[t].seq = issued'
                   /\ calls'[t].outcome = ConfigError
                   /\ calls'[t].events = <<>>
       /\ last'.op = "run" /\ NoKey(client') /\ ~client._http =>
             /\ runner'.pc = "raised" /\ runner'.exc = "RuntimeError"
             /\ runner'.ready_calls = 0
             /\ built' = built /\ sessions' = sessions]_vars

\* run() raised the configuration error with a ready callback registered,
\* and no transport was ever constructed.
C15_Witness ==
    /\ runner.pc = "raised" /\ runner.exc = "RuntimeError"
    /\ last.op = "run"
    /\ NoKey(client) /\ client._on_ready # 0
    /\ built = <<>>

(***************************************************************************)
(* Registration of handlers on its own: event() with every kind of         *)
(* handler, in every order.                                                *)
(***************************************************************************)
MaxHandlerId == 2

\* The handlers passed to event(): reserved and other names, coroutine
\* functions and plain callables, several functions per name.
EventHandlers ==
    {Handler(n, c, i) : n \in {"on_ready"} \cup EventNames, c \in BOOLEAN,
                        i \in 1..MaxHandlerId}

NextEvents == \E h \in EventHandlers : Event(h)

SpecEvents == InitClient /\ [][NextEvents]_vars

\* C16: event(h) with h not a coroutine function raises and changes
\* neither the ready callback nor the table; with a coroutine function
\* named on_ready it sets the ready callback to h and nothing else; with
\* any other name it sets that name's entry to h and nothing else.
C16_EventFrame ==
    [][\A h \in EventHandlers : Event(h) =>
          IF ~h.coro
          THEN client' = client /\ last'.op = "event_TypeError"
          ELSE /\ last'.op = "event"
               /\ IF h.name = "on_ready"
                  THEN client' = [client EXCEPT !._on_ready = h.id]
                  ELSE /\ client'._events[h.name] = h.id
                       /\ \A n \in EventNames \ {h.name} :
                             client'._events[n] = client._events[n]
                       /\ client'._on_ready = client._on_ready
                       /\ [client' EXCEPT !._events = client._events] = client]_vars

\* A registration that raised after a ready callback and a named callback
\* had been registered, both still in place.
C16_Witness ==
    /\ last.op = "event_TypeError"
    /\ client._on_ready # 0
    /\ \E n \in EventNames : client._events[n] # 0

(***************************************************************************)
(* Two tasks calling request() on one transport that owns its session.     *)
(***************************************************************************)
ConcTasks == {"t1", "t2"}

\* A success, a refusal, a throttle with a wait and one without.
ConcResponses ==
    {JsonResp(200, "OK", NoneStr, J_msg),
     NoBodyResp(403, "Forbidden", NoneStr),
     JsonResp(429, "Too Many Requests", NoneStr, J_ra2),
     JsonResp(429, "Too Many Requests", NoneStr, J_ra0)}

InitConc ==
    /\ InitOwned
    /\ calls = [t \in ConcTasks |-> IdleCall]
    /\ issued = 0
    /\ last = [op |-> "init", released |-> 0]
    /\ NoClient
    /\ built = <<CredsOf(http)>>
    /\ mapio = NoMap

NextConc ==
    \/ \E t \in ConcTasks : Request(t)
    \/ \E t \in ConcTasks : \E resp \in ConcResponses : Respond(t, resp)
    \/ \E t \in ConcTasks : Tick(t)
    \/ \E t \in ConcTasks : Resume(t)

SpecConc == InitConc /\ [][NextConc]_vars

\* C17: while one call is in its retry sleep, the other task can start a
\* call and every response to its attempt in flight can be handled; the
\* steps of the other call leave the sleeping call as it is, and a call
\* ends as its own last response says, whatever the other call received.
C17_WaitDoesNotBlockOthers ==
    /\ [](\A t \in ConcTasks : \A u \in ConcTasks \ {t} :
            calls[t].pc = "sleeping" =>
               /\ calls[u].pc \in {"idle", "done"} /\ issued < MaxCalls =>
                     ENABLED Request(u)
               /\ calls[u].pc = "inflight" =>
                     \A resp \in ConcResponses : ENABLED Respond(u, resp))
    /\ [](\A u \in ConcTasks :
            calls[u].pc = "done" =>
               calls[u].outcome = Classify(calls[u].resps[Len(calls[u].resps)]))
    /\ [][\A t \in ConcTasks : \A u \in ConcTasks \ {t} :
            calls'[u] # calls[u] => calls'[t] = calls[t]]_vars

\* t2 started its call while t1 was in its retry sleep and has returned
\* its 200 while t1 still sleeps.
C17_Witness ==
    /\ calls["t1"].pc = "sleeping"
    /\ calls["t2"].pc = "done"
    /\ calls["t2"].outcome.kind = "return"
    /\ "t1" \in calls["t2"].overlapped
    /\ calls["t2"].seq > calls["t1"].seq

(***************************************************************************)
(* The typed operations' mapping of the payload request() returned.  A     *)
(* payload is described by its shape: None, a mapping (empty or not), a    *)
(* list (empty, of mappings, of scalars) or a scalar (falsy such as 0 or   *)
(* "", or truthy).                                                         *)
(***************************************************************************)
PayloadShapes ==
    {"None", "empty_dict", "dict", "empty_list", "list_of_dicts",
     "list_of_scalars", "scalar_falsy", "scalar_truthy"}

\* isinstance(data, list), isinstance(data, dict), bool(data)
IsList(p) == p \in {"empty_list", "list_of_dicts", "list_of_scalars"}
IsDict(p) == p \in {"empty_dict", "dict"}
PyTruthy(p) == p \in {"dict", "list_of_dicts", "list_of_scalars", "scalar_truthy"}

\* The operations that map each element of a list with X.from_api.
ListRecordOps ==
    {"get_players", "get_joinlogs", "get_killlogs", "get_commandlogs",
     "get_modcalls", "get_vehicles"}

ListOps == ListRecordOps \cup {"get_queue"}
MappingOps == {"get_server", "get_bans", "get_staff"}
TypedOps == ListOps \cup MappingOps \cup {"run_command"}

\* X.from_api(data): data.get(key, default) for every field, which exists
\* on a mapping only.
from_api(p) ==
    IF ~IsDict(p) THEN "AttributeError"
    ELSE IF p = "empty_dict" THEN "defaults_record" ELSE "record"

\* What a typed operation does with the payload p.
MapOp(op, p) ==
    CASE op = "get_server" -> from_api(p)
      [] op \in ListRecordOps ->
            IF ~IsList(p) \/ p = "empty_list" THEN "empty_list"
            ELSE IF p = "list_of_dicts" THEN "records" ELSE "AttributeError"
      [] op = "get_queue" -> IF IsList(p) THEN p ELSE "empty_list"
      [] op = "get_bans" -> IF IsDict(p) THEN p ELSE "empty_dict"
      [] op = "get_staff" -> from_api(IF PyTruthy(p) THEN p ELSE "empty_dict")
      [] op = "run_command" -> IF PyTruthy(p) THEN p ELSE "empty_dict"

InitMap ==
    /\ \E op \in TypedOps, p \in PayloadShapes :
          mapio = [op |-> op, payload |-> p, result |-> "pending"]
    /\ NoClient
    /\ http = NoHttp
    /\ sessions = <<>>
    /\ built = <<>>
    /\ calls = [t \in Tasks |-> IdleCall]
    /\ issued = 0
    /\ last = [op |-> "init", released |-> 0]

\* The operation maps the payload it received.
MapPayload ==
    /\ mapio.result = "pending"
    /\ mapio' = [mapio EXCEPT !.result = MapOp(mapio.op, mapio.payload)]
    /\ last' = [op |-> "map", released |-> 0]
    /\ UNCHANGED <<http, sessions, calls, issued, client, runner, closing, built>>

NextMap == MapPayload

SpecMap == InitMap /\ [][NextMap]_vars

\* C18: for every typed operation and payload shape the mapping does not
\* raise; a list-shaped operation gives the empty list for a payload that
\* is not a list, a mapping-shaped one the empty mapping or the
\* all-defaults record for a payload that is not a mapping.
C18_MappingNeverRaises ==
    mapio.result \notin {"none", "pending"} =>
       /\ mapio.result # "AttributeError"
       /\ mapio.op \in ListOps /\ ~IsList(mapio.payload) =>
             mapio.result = "empty_list"
       /\ mapio.op \in MappingOps /\ ~IsDict(mapio.payload) =>
             mapio.result \in {"empty_dict", "defaults_record"}

\* C19: every attempt of every call carries the server key its transport
\* was constructed with, Content-Type application/json, and Authorization
\* exactly when the transport was constructed with a token; a transport's
\* credentials never change, whatever run() sets on the client.
C19_HeadersFromConstruction ==
    /\ [](\A t \in DOMAIN calls :
            /\ Len(calls[t].hdrs) = AttemptsOf(calls[t])
            /\ \A i \in DOMAIN calls[t].hdrs :
                  LET hd == calls[t].hdrs[i]
                      cr == built[calls[t].tid]
                  IN /\ hd.server_key = cr.server_key
                     /\ hd.content_type = "application/json"
                     /\ IF cr.authorization \in {NoneStr, ""}
                        THEN hd.authorization = Absent
                        ELSE hd.authorization = cr.authorization)
    /\ [](http.id # 0 => CredsOf(http) = built[http.id])
    /\ [][\A i \in DOMAIN built : i \in DOMAIN built' /\ built'[i] = built[i]]_vars

\* A call made after run() gave the client new credentials, on the
\* transport constructed before: it carries the old key and no token.
C19_Witness ==
    /\ client.server_key = "K2" /\ client.authorization = "A2"
    /\ \E t \in DOMAIN calls :
          /\ calls[t].pc = "inflight"
          /\ calls[t].hdrs[1].server_key = "K1"
          /\ calls[t].hdrs[1].authorization = Absent

\* C20: whenever the client is closed and no close() is suspended, every
\* session created for the client is closed, however the shutdown was
\* interleaved with typed operations.
C20_NoSessionLeftOpen ==
    client._closed /\ (\A w \in Closers : closing[w] = "none") =>
       \A s \in DOMAIN sessions : sessions[s].closed

\* C21: on every way out of run() (the wait cancelled or interrupted, the
\* ready callback raising, _ensure_http raising for want of a key) the
\* client is closed and holds no transport when run() returns or raises;
\* the error of the callback or of the startup is the one run() raises.
C21_EveryExitCloses ==
    [][/\ /\ runner'.pc \in {"returned", "raised"}
          /\ last'.op \in {"run", "cancel", "interrupt", "callback_raise",
                            "runner_close_end"}
          => client'._closed /\ ~client'._http
       /\ last'.op = "callback_raise" =>
             /\ runner'.exc = "CallbackError"
             /\ runner'.pc \in {"raised", "outer_close"}
       /\ last'.op = "runner_close_end" =>
             /\ runner'.exc = runner.exc
             /\ runner'.pc = IF runner.exc = "none" THEN "returned" ELSE "raised"
       /\ last'.op = "run" /\ runner'.pc \notin {"callback", "waiting"} =>
             runner'.pc = "raised" /\ runner'.exc = "RuntimeError"]_vars

\* The kind of outcome that belongs to a response status.
KindOfStatus(status) ==
    CASE status = 200 -> "return"
      [] status = 403 -> "Forbidden"
      [] status = 429 -> "RateLimited"
      [] OTHER -> "HTTPException"

\* C22: the statement after the loop of request() is never reached: no
\* call ends with its untyped 429 failure, a call sleeps only after its
\* first attempt, and a call whose attempts were all answered ends in its
\* first or second attempt with the outcome that the status of its last
\* response determines.
C22_FallbackUnreachable ==
    \A t \in DOMAIN calls :
        LET c == calls[t] IN
        /\ c.outcome # LoopFallback
        /\ ~(c.outcome.kind = "HTTPException" /\ c.outcome.status = 429)
        /\ c.pc = "sleeping" => c.attempt = 0
        /\ c.pc = "done" /\ Len(c.resps) = AttemptsOf(c) =>
              /\ Len(c.resps) \in 1..2
              /\ c.outcome.kind = KindOfStatus(LastResp(c).status)
              /\ c.outcome.kind # "return" => c.outcome.status = LastResp(c).status

\* A call that was throttled on both attempts, the second time with no
\* delay left to wait for, and ended with RateLimited in its second attempt.
C22_Witness ==
    \E t \in DOMAIN calls :
        LET c == calls[t] IN
        /\ c.pc = "done" /\ AttemptsOf(c) = 2 /\ Len(c.resps) = 2
        /\ c.resps[2].status = 429
        /\ SentRetryAfter(c.resps[2]) = 0
        /\ c.outcome.kind = "RateLimited" /\ c.outcome.retry_after = 0

====
